---- MODULE Spec2Model ----
(***************************************************************************)
(* Model of gupb/controller/botelka_ml/wisdom.py: the Wisdom facade of the *)
(* botelka_ml controller (snapshot pair, derived queries, path-cost        *)
(* estimation over a shared pathfinding Grid).                             *)
(*                                                                         *)
(* Python values are represented as follows:                               *)
(*   Coords            <<x, y>>                                            *)
(*   Optional[T]       <<>> for None, <<v>> for a present value            *)
(*   dict (ordered)    a sequence of [coords, tile] items, insertion order *)
(*   a raised exception  a record with raised = TRUE                       *)
(***************************************************************************)
EXTENDS Integers, Sequences, FiniteSets, TLC

VARIABLES
    arena,           \* Wisdom.arena: [walls, menhir_position]
    knowledge,       \* Wisdom.knowledge: Optional[ChampionKnowledge]
    prev_knowledge,  \* Wisdom.prev_knowledge: Optional[ChampionKnowledge]
    t,               \* Wisdom.t
    grid,            \* Wisdom.grid: node -> search markings of the pathfinding Grid
    args,            \* arguments of a direct call of move_one_tile
    ret,             \* what the last call returned (or that it raised)
    supplied         \* history: the snapshots passed to next_knowledge, in order

vars == <<arena, knowledge, prev_knowledge, t, grid, args, ret, supplied>>

----------------------------------------------------------------------------
(* Bounds of the model *)

\* cells are <<x, y>> with x in 0..MaxX and y in 0..MaxY
MaxX == 2
MaxY == 1

\* the bot, on <<0, 0>>, sees MaxSight cells to its right and two cells below
MaxSight == 4

\* next_knowledge is called at most MaxCalls times
MaxCalls == 3

\* own health ranges over MAX_HEALTH - HealthRange .. MAX_HEALTH
HealthRange == 1

----------------------------------------------------------------------------
(* Program constants *)

MAX_HEALTH == 5
UNREACHABLE == 1000000
NET_SIZE == 10

----------------------------------------------------------------------------
(* Coordinates and facings (gupb.model.coordinates, gupb.model.characters) *)

None == <<>>
Some(v) == <<v>>

Cells == (0..MaxX) \X (0..MaxY)

sub_coords(a, b) == <<a[1] - b[1], a[2] - b[2]>>
add_coords(a, b) == <<a[1] + b[1], a[2] + b[2]>>

Facings == {"UP", "RIGHT", "DOWN", "LEFT"}

\* Facing.value: the unit delta of a facing (y grows downwards)
FacingValue(f) ==
    CASE f = "UP"    -> <<0, -1>>
      [] f = "RIGHT" -> <<1, 0>>
      [] f = "DOWN"  -> <<0, 1>>
      [] f = "LEFT"  -> <<-1, 0>>

turn_right(f) ==
    CASE f = "UP"    -> "RIGHT"
      [] f = "RIGHT" -> "DOWN"
      [] f = "DOWN"  -> "LEFT"
      [] f = "LEFT"  -> "UP"

turn_left(f) ==
    CASE f = "UP"    -> "LEFT"
      [] f = "LEFT"  -> "DOWN"
      [] f = "DOWN"  -> "RIGHT"
      [] f = "RIGHT" -> "UP"

\* Facing(delta): the enum member with that value (ValueError when there is none)
IsFacingValue(d) == \E f \in Facings : FacingValue(f) = d
FacingOf(d) == CHOOSE f \in Facings : FacingValue(f) = d

\* cardinally adjacent cells
Adjacent(a, b) == IsFacingValue(sub_coords(b, a))

----------------------------------------------------------------------------
(* Wisdom.move_one_tile *)

RECURSIVE TurnLeftLoop(_, _, _)
TurnLeftLoop(facing, exit_facing, actions) ==
    IF facing = exit_facing THEN actions
    ELSE TurnLeftLoop(turn_left(facing), exit_facing, actions + 1)

RECURSIVE TurnRightLoop(_, _, _)
TurnRightLoop(facing, exit_facing, actions) ==
    IF facing = exit_facing THEN actions
    ELSE TurnRightLoop(turn_right(facing), exit_facing, actions + 1)

\* mutant: only the left rotation is counted, the comparison with the right one is lost
move_one_tile_left_only(starting_facing, coord_0, coord_1) ==
    LET exit_facing == FacingOf(sub_coords(coord_1, coord_0))
        left_actions == TurnLeftLoop(starting_facing, exit_facing, 0)
    IN  [actions |-> left_actions + 1, facing |-> exit_facing]

move_one_tile(starting_facing, coord_0, coord_1) ==
    LET exit_facing == FacingOf(sub_coords(coord_1, coord_0))
        left_actions == TurnLeftLoop(starting_facing, exit_facing, 0)
        right_actions == TurnRightLoop(starting_facing, exit_facing, 1)
        actions == IF left_actions > right_actions THEN right_actions
                   ELSE left_actions
    IN  [actions |-> actions + 1, facing |-> exit_facing]

----------------------------------------------------------------------------
(* ChampionKnowledge: [position, visible_tiles]; visible_tiles is a dict,   *)
(* kept as the sequence of its items [coords, character, loot]              *)

Character(health, facing, weapon) ==
    [health |-> health, facing |-> facing, weapon |-> weapon]

Item(coords, character, loot) ==
    [coords |-> coords, character |-> character, loot |-> loot]

Knowledge(position, visible_tiles) ==
    [position |-> position, visible_tiles |-> visible_tiles]

\* visible_tiles[coords]: KeyError when the key is absent
HasKey(visible_tiles, coords) ==
    \E i \in DOMAIN visible_tiles : visible_tiles[i].coords = coords
GetItem(visible_tiles, coords) ==
    visible_tiles[CHOOSE i \in DOMAIN visible_tiles : visible_tiles[i].coords = coords]

\* the character of the tile at coords; raised: KeyError or the failed assert
TileCharacter(k, coords) ==
    IF HasKey(k.visible_tiles, coords)
       /\ GetItem(k.visible_tiles, coords).character # None
    THEN [raised |-> FALSE, val |-> GetItem(k.visible_tiles, coords).character[1]]
    ELSE [raised |-> TRUE, val |-> Character(0, "UP", "knife")]

bot_coords(k) == k.position

bot_facing(k) ==
    LET c == TileCharacter(k, bot_coords(k))
    IN  [raised |-> c.raised, val |-> c.val.facing]

----------------------------------------------------------------------------
(* pathfinding.core.grid.Grid and pathfinding.finder.dijkstra.DijkstraFinder *)
(* (diagonal movement: never; every edge weighs 1; heuristic: null)          *)

CleanNode(walkable) ==
    [walkable |-> walkable, opened |-> FALSE, closed |-> FALSE,
     g |-> 0, parent |-> None]

\* Grid(matrix=...): one node per cell, walkable unless a wall
BuildGrid(walls) == [c \in Cells |-> CleanNode(c \notin walls)]

\* Grid.cleanup(): every node forgets its search markings
cleanup(nodes) == [c \in DOMAIN nodes |-> CleanNode(nodes[c].walkable)]

\* Grid.neighbors(node): the walkable cells above, right, below, left, in this order
neighbors(nodes, c) ==
    LET around == <<add_coords(c, <<0, -1>>), add_coords(c, <<1, 0>>),
                    add_coords(c, <<0, 1>>), add_coords(c, <<-1, 0>>)>>
        Walkable(n) == n \in DOMAIN nodes /\ nodes[n].walkable
    IN  SelectSeq(around, Walkable)

RemoveAt(s, i) == SubSeq(s, 1, i - 1) \o SubSeq(s, i + 1, Len(s))
IndexOf(s, e) == CHOOSE i \in DOMAIN s : s[i] = e
InSeq(s, e) == \E i \in DOMAIN s : s[i] = e

\* the open node of least cost, the earliest pushed among equals
MinIndex(nodes, open) ==
    CHOOSE i \in DOMAIN open :
        /\ \A j \in DOMAIN open : nodes[open[i]].g <= nodes[open[j]].g
        /\ \A j \in 1..(i - 1) : nodes[open[j]].g > nodes[open[i]].g

\* Finder.process_node: S = [nodes, open, raised]
process_node(S, node, parent) ==
    LET ng == S.nodes[parent].g + 1
        n == S.nodes[node]
    IN  IF ~n.opened \/ ng < n.g
        THEN LET updated == [S.nodes EXCEPT ![node] =
                               [@ EXCEPT !.g = ng, !.parent = Some(parent),
                                         !.opened = TRUE]]
             IN  IF ~n.opened
                 THEN [S EXCEPT !.nodes = updated, !.open = Append(S.open, node)]
                 ELSE IF InSeq(S.open, node)
                 THEN [S EXCEPT !.nodes = updated,
                                !.open = Append(RemoveAt(S.open, IndexOf(S.open, node)),
                                                node)]
                 \* open_list.remove(node) of a node that is not listed: ValueError
                 ELSE [S EXCEPT !.nodes = updated, !.raised = TRUE]
        ELSE S

RECURSIVE ProcessNeighbors(_, _, _, _)
ProcessNeighbors(S, nbrs, i, parent) ==
    IF i > Len(nbrs) \/ S.raised THEN S
    ELSE ProcessNeighbors(
             IF S.nodes[nbrs[i]].closed THEN S ELSE process_node(S, nbrs[i], parent),
             nbrs, i + 1, parent)

\* backtrace(end): follow the parents, then reverse
RECURSIVE backtrace(_, _, _)
backtrace(nodes, node, path) ==
    IF nodes[node].parent = None THEN <<node>> \o path
    ELSE backtrace(nodes, nodes[node].parent[1], <<node>> \o path)

\* the loop of Finder.find_path, one check_neighbors per round
RECURSIVE FindLoop(_, _)
FindLoop(S, end) ==
    IF S.raised THEN [path |-> <<>>, nodes |-> S.nodes, raised |-> TRUE]
    ELSE IF S.open = <<>> THEN [path |-> <<>>, nodes |-> S.nodes, raised |-> FALSE]
    ELSE LET i == MinIndex(S.nodes, S.open)
             node == S.open[i]
             closed == [S.nodes EXCEPT ![node].closed = TRUE]
             popped == [S EXCEPT !.nodes = closed, !.open = RemoveAt(S.open, i)]
         IN  IF node = end
             THEN [path |-> backtrace(closed, end, <<>>), nodes |-> closed,
                   raised |-> FALSE]
             ELSE FindLoop(ProcessNeighbors(popped, neighbors(closed, node), 1, node),
                           end)

\* Finder.find_path(start, end, grid): the path (empty when none) and the grid
\* as the search leaves it
find_path(start, end, nodes) ==
    FindLoop([nodes |-> [nodes EXCEPT ![start].opened = TRUE],
              open |-> <<start>>, raised |-> FALSE], end)

----------------------------------------------------------------------------
(* Wisdom.find_path_len and Wisdom.distance_to_menhir *)

\* the loop over consecutive path cells, the exit facing threaded through
RECURSIVE WalkPath(_, _, _, _)
WalkPath(path, x, facing, steps) ==
    IF x > Len(path) - 1 THEN steps
    ELSE LET m == move_one_tile(facing, path[x], path[x + 1])
         IN  WalkPath(path, x + 1, m.facing, steps + m.actions)

\* what find_path_len yields after the search ran on `searched`
PathLenAfterSearch(k, found) ==
    IF found.raised \/ bot_facing(k).raised
    THEN [raised |-> TRUE, steps |-> 0, grid |-> found.nodes]
    ELSE [raised |-> FALSE,
          steps |-> WalkPath(found.path, 1, bot_facing(k).val, 0),
          grid |-> found.nodes]

\* mutant: the grid is searched as the previous query left it
find_path_len_no_cleanup(k, nodes, coords) ==
    IF coords \notin DOMAIN nodes
    THEN [raised |-> TRUE, steps |-> 0, grid |-> nodes, searched |-> nodes]
    ELSE [searched |-> nodes] @@
         PathLenAfterSearch(k, find_path(bot_coords(k), coords, nodes))

\* mutant: one action is counted per path cell, not per step between cells
find_path_len_per_cell(k, nodes, coords) ==
    LET cleaned == cleanup(nodes)
    IN  IF coords \notin DOMAIN nodes
        THEN [raised |-> TRUE, steps |-> 0, grid |-> cleaned, searched |-> cleaned]
        ELSE LET r == PathLenAfterSearch(k, find_path(bot_coords(k), coords, cleaned))
             IN  [searched |-> cleaned] @@
                 [r EXCEPT !.steps = IF r.raised THEN 0 ELSE r.steps + 1]

\* find_path_len(coords) on knowledge k and the shared grid: whether it raised,
\* the steps, the grid it leaves behind and the grid the search was started on
find_path_len(k, nodes, coords) ==
    LET cleaned == cleanup(nodes)
    IN  IF coords \notin DOMAIN nodes
        \* grid.node(x, y) outside the matrix: IndexError
        THEN [raised |-> TRUE, steps |-> 0, grid |-> cleaned, searched |-> cleaned]
        ELSE [searched |-> cleaned] @@
             PathLenAfterSearch(k, find_path(bot_coords(k), coords, cleaned))

distance_to_menhir(k, nodes, a) ==
    LET r == find_path_len(k, nodes, a.menhir_position)
    IN  [val |-> IF r.raised THEN UNREACHABLE ELSE r.steps, grid |-> r.grid]

----------------------------------------------------------------------------
(* Weapons: WEAPONS, weapon_ranking, and the queries that rank loot *)

WeaponNames == {"bow", "axe", "sword", "knife", "amulet"}

\* WEAPONS.get(name): None for a name that is no key
WEAPONS_get(name) == IF name \in WeaponNames THEN Some(name) ELSE None

\* weapon_ranking(weapon) on Optional[Weapon]: what no isinstance test matches is 0
weapon_ranking(weapon) ==
    IF weapon = None THEN 0
    ELSE CASE weapon[1] = "bow"    -> 10
           [] weapon[1] = "amulet" -> 8
           [] weapon[1] = "axe"    -> 6
           [] weapon[1] = "sword"  -> 6
           [] OTHER                -> 0

\* Wisdom.bot_weapon: WEAPONS[name] of the own character (KeyError, failed assert)
bot_weapon(k) ==
    LET c == TileCharacter(k, bot_coords(k))
    IN  IF c.raised \/ c.val.weapon \notin WeaponNames
        THEN [raised |-> TRUE, val |-> None]
        ELSE [raised |-> FALSE, val |-> Some(c.val.weapon)]

\* Wisdom.better_weapon_visible: any() over the tiles in dict order, which stops
\* at the first tile that qualifies; bot_weapon is read for each tile with loot
RECURSIVE BetterWeaponFrom(_, _)
BetterWeaponFrom(k, i) ==
    IF i > Len(k.visible_tiles) THEN [raised |-> FALSE, val |-> FALSE]
    ELSE LET tile == k.visible_tiles[i]
         IN  IF tile.loot = None THEN BetterWeaponFrom(k, i + 1)
             ELSE IF bot_weapon(k).raised THEN [raised |-> TRUE, val |-> FALSE]
             ELSE IF weapon_ranking(WEAPONS_get(tile.loot[1]))
                        > weapon_ranking(bot_weapon(k).val)
             THEN [raised |-> FALSE, val |-> TRUE]
             ELSE BetterWeaponFrom(k, i + 1)

better_weapon_visible(k) == BetterWeaponFrom(k, 1)

\* Wisdom.will_pick_up_worse_weapon
will_pick_up_worse_weapon(k) ==
    IF bot_facing(k).raised THEN [raised |-> TRUE, val |-> FALSE]
    ELSE LET coords_in_front == add_coords(bot_coords(k), FacingValue(bot_facing(k).val))
         IN  IF ~HasKey(k.visible_tiles, coords_in_front)
             THEN [raised |-> TRUE, val |-> FALSE]
             ELSE IF GetItem(k.visible_tiles, coords_in_front).loot = None
             THEN [raised |-> FALSE, val |-> FALSE]
             ELSE IF bot_weapon(k).raised THEN [raised |-> TRUE, val |-> FALSE]
             ELSE [raised |-> FALSE,
                   val |-> weapon_ranking(WEAPONS_get(
                               GetItem(k.visible_tiles, coords_in_front).loot[1]))
                           < weapon_ranking(bot_weapon(k).val)]

----------------------------------------------------------------------------
(* Occupants: relative_enemies_positions, enemies_visible, get_state *)

\* the list comprehension of lines 162-166: other occupants' coords, in dict order
RECURSIVE EnemiesFrom(_, _)
EnemiesFrom(k, i) ==
    IF i > Len(k.visible_tiles) THEN <<>>
    ELSE LET tile == k.visible_tiles[i]
         IN  (IF tile.character # None /\ tile.coords # bot_coords(k)
              THEN <<tile.coords>> ELSE <<>>) \o EnemiesFrom(k, i + 1)

enemies_coords(k) == EnemiesFrom(k, 1)

\* the loop writing result[2*i], result[2*i + 1]; an index past the list: IndexError
RECURSIVE FillResult(_, _, _)
FillResult(result, relative, i) ==
    IF i >= Len(relative) THEN [raised |-> FALSE, val |-> result]
    ELSE IF 2 * i + 1 >= Len(result) THEN [raised |-> TRUE, val |-> result]
    ELSE FillResult([result EXCEPT ![2 * i + 1] = relative[i + 1][1],
                                   ![2 * i + 2] = relative[i + 1][2]],
                    relative, i + 1)

relative_enemies_positions(k) ==
    LET relative_enemies_coords ==
            [i \in DOMAIN enemies_coords(k) |->
                sub_coords(enemies_coords(k)[i], bot_coords(k))]
    IN  FillResult([i \in 1..NET_SIZE |-> 0], relative_enemies_coords, 0)

\* Wisdom.enemies_visible: any tile with a character
enemies_visible(k) ==
    \E i \in DOMAIN k.visible_tiles : k.visible_tiles[i].character # None

\* get_state: visible_enemies, the count of characters on other tiles
visible_enemies(k) == Len(enemies_coords(k))

----------------------------------------------------------------------------
(* Snapshot pair: next_knowledge, bot_health, prev_bot_health, lost_health *)

\* mutant: the previous snapshot is not kept
next_knowledge_forgets_prev(self, k) ==
    [knowledge |-> Some(k), prev_knowledge |-> self.prev_knowledge, t |-> self.t + 1]

next_knowledge(self, k) ==
    [knowledge |-> Some(k), prev_knowledge |-> self.knowledge, t |-> self.t + 1]

\* Wisdom.bot_health on Optional knowledge (no snapshot: AttributeError)
bot_health(k) ==
    IF k = None THEN [raised |-> TRUE, val |-> 0]
    ELSE LET c == TileCharacter(k[1], bot_coords(k[1]))
         IN  [raised |-> c.raised, val |-> c.val.health]

\* Wisdom.prev_bot_health: MAX_HEALTH when there is no previous snapshot
prev_bot_health(pk) ==
    IF pk = None THEN [raised |-> FALSE, val |-> MAX_HEALTH]
    ELSE LET c == TileCharacter(pk[1], pk[1].position)
         IN  [raised |-> c.raised, val |-> c.val.health]

lost_health(k, pk) ==
    IF bot_health(k).raised \/ prev_bot_health(pk).raised
    THEN [raised |-> TRUE, val |-> FALSE]
    ELSE [raised |-> FALSE, val |-> bot_health(k).val # prev_bot_health(pk).val]

----------------------------------------------------------------------------
(* Values the variables take where a specification does not use them *)

NoArena == [walls |-> {}, menhir_position |-> <<0, 0>>]
NoGrid == <<>>
NoArgs == [op |-> "none"]
NoRet == [op |-> "none"]

----------------------------------------------------------------------------
(* SpecStep: direct calls of move_one_tile on every facing and every pair  *)
(* of cardinally adjacent cells                                            *)

InitStep ==
    /\ arena = NoArena
    /\ knowledge = None
    /\ prev_knowledge = None
    /\ t = 0
    /\ grid = NoGrid
    /\ \E f \in Facings, c0 \in Cells, c1 \in Cells :
          /\ Adjacent(c0, c1)
          /\ args = [op |-> "move_one_tile", starting_facing |-> f,
                     coord_0 |-> c0, coord_1 |-> c1]
    /\ ret = NoRet
    /\ supplied = <<>>

MoveOneTile ==
    /\ args.op = "move_one_tile"
    /\ ret.op = "none"
    /\ LET r == move_one_tile(args.starting_facing, args.coord_0, args.coord_1)
       IN  ret' = [op |-> "move_one_tile", actions |-> r.actions, facing |-> r.facing]
    /\ UNCHANGED <<arena, knowledge, prev_knowledge, t, grid, args, supplied>>

NextStep == MoveOneTile

SpecStep == InitStep /\ [][NextStep]_vars

\* the smaller of the turn_left count and the turn_right count from f to g
MinRotations(f, g) ==
    LET l == TurnLeftLoop(f, g, 0)
        r == TurnRightLoop(f, g, 0)
    IN  IF l < r THEN l ELSE r

\* C1: for every starting facing and every step between adjacent cells,
\* move_one_tile costs d + 1, d the minimal number of single rotations from the
\* starting facing to the facing of the step; a step one turn_right away costs 2.
C1_SymmetricCost ==
    ret.op = "move_one_tile" =>
        ret.actions = 1 + MinRotations(args.starting_facing,
                                       FacingOf(sub_coords(args.coord_1, args.coord_0)))

\* C3: for every pair of adjacent cells and every starting facing, the cost is
\* in {1, 2, 3} and the exit facing is the facing whose unit delta is to - from.
C3_CostRangeAndExitFacing ==
    ret.op = "move_one_tile" =>
        /\ ret.actions \in {1, 2, 3}
        /\ ret.facing \in Facings
        /\ add_coords(args.coord_0, FacingValue(ret.facing)) = args.coord_1

\* C3 witness: a step that needs the longest rotation (the opposite facing) was costed
C3_Witness ==
    /\ ret.op = "move_one_tile"
    /\ args.starting_facing = "UP"
    /\ sub_coords(args.coord_1, args.coord_0) = <<0, 1>>
    /\ ret.actions = 3

----------------------------------------------------------------------------
(* SpecPath: a Wisdom built on an arena with a snapshot, then any sequence *)
(* of find_path_len and distance_to_menhir calls on its one shared grid    *)

\* cells that may hold a wall; together they close off the corner <<0, 0>>
WallCandidates == {<<1, 0>>, <<0, 1>>}
\* the objective cell of the arena
MenhirCell == <<0, 0>>

\* a snapshot in which only the bot's own tile is visible
OwnTileSnapshot(position, health, facing, weapon) ==
    Knowledge(position,
              <<Item(position, Some(Character(health, facing, weapon)), None)>>)

InitPath ==
    /\ \E walls \in SUBSET WallCandidates :
          /\ arena = [walls |-> walls, menhir_position |-> MenhirCell]
          /\ grid = BuildGrid(walls)
          /\ \E p \in Cells \ walls, f \in Facings :
                knowledge = Some(OwnTileSnapshot(p, MAX_HEALTH, f, "knife"))
    /\ prev_knowledge = None
    /\ t = 0
    /\ args = NoArgs
    /\ ret = NoRet
    /\ supplied = <<>>

FindPathLen(coords) ==
    /\ LET r == find_path_len(knowledge[1], grid, coords)
       IN  /\ grid' = r.grid
           /\ ret' = [op |-> "find_path_len", target |-> coords,
                      raised |-> r.raised, steps |-> r.steps,
                      dirty_before |-> (grid # BuildGrid(arena.walls)),
                      searched_clean |-> (r.searched = BuildGrid(arena.walls))]
    /\ UNCHANGED <<arena, knowledge, prev_knowledge, t, args, supplied>>

DistanceToMenhir ==
    /\ LET r == distance_to_menhir(knowledge[1], grid, arena)
       IN  /\ grid' = r.grid
           /\ ret' = [op |-> "distance_to_menhir", val |-> r.val,
                      dirty_before |-> (grid # BuildGrid(arena.walls))]
    /\ UNCHANGED <<arena, knowledge, prev_knowledge, t, args, supplied>>

NextPath ==
    \/ \E coords \in Cells : FindPathLen(coords)
    \/ DistanceToMenhir

SpecPath == InitPath /\ [][NextPath]_vars

\* the cells that can be walked to from the cells of `seen`
RECURSIVE Flood(_, _)
Flood(walls, seen) ==
    LET more == {c \in Cells \ (walls \cup seen) : \E s \in seen : Adjacent(s, c)}
    IN  IF more = {} THEN seen ELSE Flood(walls, seen \cup more)

Reachable(walls, from, to) == to \in Flood(walls, {from})

\* C2: when no walkable path leads from the bot's cell to the objective,
\* distance_to_menhir returns the sentinel 1000000, never a small distance.
C2_UnreachableIsSentinel ==
    (/\ ret.op = "distance_to_menhir"
     /\ ~Reachable(arena.walls, bot_coords(knowledge[1]), arena.menhir_position))
    => ret.val = UNREACHABLE

\* the number of cells between a and b when b lies straight from a in direction f
StraightDistance(a, b, f) ==
    IF \E n \in 1..(MaxX + MaxY) : b = <<a[1] + n * FacingValue(f)[1],
                                     a[2] + n * FacingValue(f)[2]>>
    THEN CHOOSE n \in 1..(MaxX + MaxY) : b = <<a[1] + n * FacingValue(f)[1],
                                           a[2] + n * FacingValue(f)[2]>>
    ELSE 0

\* C4: on an open grid, an objective n >= 1 cells away in a straight line whose
\* direction is exactly one rotation from the bot's facing costs n + 1.
C4_OneTurnThenStraight ==
    \A f \in Facings :
        (/\ ret.op = "find_path_len"
         /\ arena.walls = {}
         /\ f \in {turn_left(bot_facing(knowledge[1]).val),
                   turn_right(bot_facing(knowledge[1]).val)}
         /\ StraightDistance(bot_coords(knowledge[1]), ret.target, f) >= 1)
        => (/\ ~ret.raised
            /\ ret.steps = StraightDistance(bot_coords(knowledge[1]), ret.target, f) + 1)

\* C5: for every walkable cell p and facing f, find_path_len with the bot at p
\* and target p returns 0.
C5_StartIsGoal ==
    (ret.op = "find_path_len" /\ ret.target = bot_coords(knowledge[1]))
    => (~ret.raised /\ ret.steps = 0)

\* C5 witness: a query whose target is the bot's own cell returned, on a grid that
\* an earlier query had left marked
C5_Witness ==
    /\ ret.op = "find_path_len"
    /\ ret.target = bot_coords(knowledge[1])
    /\ ret.dirty_before
    /\ ret.steps = 0

\* C6: every search runs on a grid that was just reset, so a query returns what
\* the same query returns on a freshly built grid, whatever ran before it.
C6_QueryAsOnFreshGrid ==
    ret.op = "find_path_len" =>
        /\ ret.searched_clean
        /\ LET fresh == PathLenAfterSearch(knowledge[1],
                            find_path(bot_coords(knowledge[1]), ret.target,
                                      BuildGrid(arena.walls)))
           IN  ret.raised = fresh.raised /\ ret.steps = fresh.steps

\* C6 witness: a query with a positive cost ran on a grid that an earlier query
\* had left marked
C6_Witness ==
    /\ ret.op = "find_path_len"
    /\ ret.dirty_before
    /\ ~ret.raised
    /\ ret.steps > 0

----------------------------------------------------------------------------
(* SpecSenses: a Wisdom built with a snapshot, then any sequence of the     *)
(* occupant and loot queries on it                                          *)

BotCell == <<0, 0>>
SightCells == {<<x, 0>> : x \in 1..MaxSight} \cup {<<0, 1>>, <<1, 1>>}

\* the sequences of n distinct cells in sight
Arrangements(n) ==
    {q \in [1..n -> SightCells] : \A i, j \in 1..n : i # j => q[i] # q[j]}

\* the bot's own tile, then the occupied tiles in the order the engine listed
\* them: any number of the cells in sight may be occupied
OccupantSnapshots ==
    {Knowledge(BotCell,
               <<Item(BotCell, Some(Character(MAX_HEALTH, "RIGHT", "knife")), None)>>
               \o [i \in DOMAIN q |->
                      Item(q[i], Some(Character(MAX_HEALTH, "LEFT", "knife")), None)])
       : q \in UNION {Arrangements(n) : n \in 0..Cardinality(SightCells)}}

LootNames == {"bow", "sword", "knife", "scroll"}
MaybeLoot == {None} \cup {Some(l) : l \in LootNames}

\* the bot's own tile, the tile to its right and the tile below it, with or
\* without loot
LootSnapshots ==
    {Knowledge(BotCell,
               <<Item(BotCell, Some(Character(MAX_HEALTH, f, w)), None),
                 Item(<<1, 0>>, None, l1),
                 Item(<<0, 1>>, None, l2)>>)
       : f \in {"RIGHT", "DOWN"}, w \in {"knife", "sword", "bow"},
         l1 \in MaybeLoot, l2 \in MaybeLoot}

InitSenses ==
    /\ arena = NoArena
    /\ knowledge \in {Some(k) : k \in OccupantSnapshots \cup LootSnapshots}
    /\ prev_knowledge = None
    /\ t = 0
    /\ grid = NoGrid
    /\ args = NoArgs
    /\ ret = NoRet
    /\ supplied = <<>>

Unchanged_Senses == UNCHANGED <<arena, knowledge, prev_knowledge, t, grid, args, supplied>>

RelativeEnemiesPositions ==
    /\ LET r == relative_enemies_positions(knowledge[1])
       IN  ret' = [op |-> "relative_enemies_positions", raised |-> r.raised,
                   result |-> r.val]
    /\ Unchanged_Senses

EnemiesVisible ==
    /\ ret' = [op |-> "enemies_visible", val |-> enemies_visible(knowledge[1])]
    /\ Unchanged_Senses

GetStateVisibleEnemies ==
    /\ ret' = [op |-> "visible_enemies", val |-> visible_enemies(knowledge[1])]
    /\ Unchanged_Senses

BetterWeaponVisible ==
    /\ LET r == better_weapon_visible(knowledge[1])
       IN  ret' = [op |-> "better_weapon_visible", raised |-> r.raised, val |-> r.val]
    /\ Unchanged_Senses

WillPickUpWorseWeapon ==
    /\ LET r == will_pick_up_worse_weapon(knowledge[1])
       IN  ret' = [op |-> "will_pick_up_worse_weapon", raised |-> r.raised,
                   val |-> r.val]
    /\ Unchanged_Senses

NextSenses ==
    \/ RelativeEnemiesPositions
    \/ EnemiesVisible
    \/ GetStateVisibleEnemies
    \/ BetterWeaponVisible
    \/ WillPickUpWorseWeapon

SpecSenses == InitSenses /\ [][NextSenses]_vars

\* the occupants other than the bot, as a set of cells
Occupants(k) ==
    {k.visible_tiles[i].coords : i \in
        {j \in DOMAIN k.visible_tiles :
            /\ k.visible_tiles[j].character # None
            /\ k.visible_tiles[j].coords # k.position}}

SquaredDistance(a, b) ==
    (a[1] - b[1]) * (a[1] - b[1]) + (a[2] - b[2]) * (a[2] - b[2])

\* slot i (1-based) of a result: the pair of numbers at 2i - 1 and 2i
Slot(result, i) == <<result[2 * i - 1], result[2 * i]>>

\* C7: for any number n of visible occupants, relative_enemies_positions returns
\* exactly 10 numbers: the first min(n, 5) slots hold the offsets of the nearest
\* occupants in ascending distance, the other slots are (0, 0), and n > 5 is no
\* error, whatever the iteration order of visible_tiles.  (Occupants at equal
\* distance may come in either order here, so that a violation never rests on
\* the tie rule.)
C7_OffsetsByDistance ==
    ret.op = "relative_enemies_positions" =>
        LET k == knowledge[1]
            occ == Occupants(k)
            m == IF Cardinality(occ) < 5 THEN Cardinality(occ) ELSE 5
            cell(i) == add_coords(k.position, Slot(ret.result, i))
            far(c) == SquaredDistance(k.position, c)
        IN  /\ ~ret.raised
            /\ Len(ret.result) = NET_SIZE
            /\ \A i \in 1..m : cell(i) \in occ
            /\ \A i, j \in 1..m : i < j => (cell(i) # cell(j) /\ far(cell(i)) <= far(cell(j)))
            /\ \A c \in occ \ {cell(i) : i \in 1..m} : far(c) >= far(cell(m))
            /\ \A i \in (m + 1)..5 : Slot(ret.result, i) = <<0, 0>>

\* C8: enemies_visible is true iff a visible cell other than the bot's own
\* hosts an occupant; it is false when the bot is the only visible occupant.
C8_EnemiesVisibleExcludesSelf ==
    ret.op = "enemies_visible" =>
        (ret.val <=> Occupants(knowledge[1]) # {})

\* some visible loot (better_weapon_visible), or the loot on the cell ahead
\* (will_pick_up_worse_weapon), names no weapon of the catalog
UnknownLootVisible(k) ==
    \E i \in DOMAIN k.visible_tiles :
        /\ k.visible_tiles[i].loot # None
        /\ k.visible_tiles[i].loot[1] \notin WeaponNames

UnknownLootAhead(k) ==
    \E i \in DOMAIN k.visible_tiles :
        /\ k.visible_tiles[i].coords
              = add_coords(k.position, FacingValue(bot_facing(k).val))
        /\ k.visible_tiles[i].loot # None
        /\ k.visible_tiles[i].loot[1] \notin WeaponNames

\* C10: a loot item whose weapon identity is not in the catalog makes
\* better_weapon_visible and will_pick_up_worse_weapon fail with a lookup error;
\* neither ranks it 0 and answers true or false.
C10_UnknownLootFails ==
    /\ (ret.op = "better_weapon_visible" /\ UnknownLootVisible(knowledge[1]))
          => ret.raised
    /\ (ret.op = "will_pick_up_worse_weapon" /\ UnknownLootAhead(knowledge[1]))
          => ret.raised

----------------------------------------------------------------------------
(* SpecHealth: a Wisdom built without a snapshot, then next_knowledge calls *)
(* and lost_health queries                                                  *)

Healths == (MAX_HEALTH - HealthRange)..MAX_HEALTH

\* the bot on one of two cells, alone or with a wounded occupant in sight
HealthSnapshots ==
    {Knowledge(p, <<Item(p, Some(Character(h, "UP", "knife")), None)>> \o others)
       : p \in {<<0, 0>>, <<1, 0>>}, h \in Healths,
         others \in {<<>>, <<Item(<<1, 1>>, Some(Character(1, "UP", "knife")), None)>>}}

InitHealth ==
    /\ arena = NoArena
    /\ knowledge = None
    /\ prev_knowledge = None
    /\ t = 0
    /\ grid = NoGrid
    /\ args = NoArgs
    /\ ret = NoRet
    /\ supplied = <<>>

NextKnowledge(k) ==
    /\ t < MaxCalls
    /\ LET self == next_knowledge([knowledge |-> knowledge,
                                   prev_knowledge |-> prev_knowledge, t |-> t], k)
       IN  /\ knowledge' = self.knowledge
           /\ prev_knowledge' = self.prev_knowledge
           /\ t' = self.t
    /\ supplied' = Append(supplied, k)
    /\ ret' = [op |-> "next_knowledge"]
    /\ UNCHANGED <<arena, grid, args>>

LostHealth ==
    /\ LET r == lost_health(knowledge, prev_knowledge)
       IN  ret' = [op |-> "lost_health", raised |-> r.raised, val |-> r.val]
    /\ UNCHANGED <<arena, knowledge, prev_knowledge, t, grid, args, supplied>>

NextHealth ==
    \/ \E k \in HealthSnapshots : NextKnowledge(k)
    \/ LostHealth

SpecHealth == InitHealth /\ [][NextHealth]_vars

\* the health of the occupant standing on the snapshot's own position
OwnHealth(k) ==
    LET i == CHOOSE j \in DOMAIN k.visible_tiles : k.visible_tiles[j].coords = k.position
    IN  k.visible_tiles[i].character[1].health

\* C9: after n >= 1 next_knowledge calls on a Wisdom created without a snapshot,
\* the Wisdom holds the latest snapshot and the one supplied just before it
\* (none after the first call), t = n, and lost_health is true iff the bot's
\* health in the latest snapshot differs from that in the preceding one, or
\* from the baseline 5 when there is no preceding one.
C9_SnapshotPairAndLostHealth ==
    LET n == Len(supplied)
    IN  n >= 1 =>
          /\ knowledge = Some(supplied[n])
          /\ prev_knowledge = (IF n > 1 THEN Some(supplied[n - 1]) ELSE None)
          /\ t = n
          /\ ~lost_health(knowledge, prev_knowledge).raised
          /\ lost_health(knowledge, prev_knowledge).val
                <=> (OwnHealth(supplied[n])
                        # (IF n > 1 THEN OwnHealth(supplied[n - 1]) ELSE 5))
          /\ ret.op = "lost_health" =>
                (/\ ~ret.raised
                 /\ ret.val <=> (OwnHealth(supplied[n])
                        # (IF n > 1 THEN OwnHealth(supplied[n - 1]) ELSE 5)))

\* C9 witness: after at least three calls, lost_health answered true for a bot
\* at full health whose preceding snapshot showed it wounded
C9_Witness ==
    /\ Len(supplied) >= 3
    /\ ret.op = "lost_health"
    /\ ret.val
    /\ OwnHealth(supplied[Len(supplied)]) = 5
    /\ OwnHealth(supplied[Len(supplied) - 1]) # 5

====
